---- MODULE Spec2Model ----
(***************************************************************************)
(* A model of the edewakaru.com verb-pair scraper (scraper.py) and of its  *)
(* AnkiConnect synchroniser (anki_sync.py).                                *)
(*                                                                         *)
(* Text is modelled as a sequence of characters.  TLA+ strings are ASCII,  *)
(* so the non-ASCII characters the code tests for are named:               *)
(*     "DOT"  U+30FB  KATAKANA MIDDLE DOT       (the separator "・")       *)
(*     "FSL"  U+FF0F  FULLWIDTH SOLIDUS         (the separator "／")       *)
(*     "/"    U+002F  SOLIDUS                   (the separator "/")        *)
(*     "BAR"  U+FF5C  FULLWIDTH VERTICAL LINE   (the suffix mark "｜")     *)
(*     "|"    U+007C  VERTICAL LINE             (the suffix mark "|")      *)
(*     " "    U+0020  SPACE                                                *)
(*     "ISP"  U+3000  IDEOGRAPHIC SPACE (whitespace for str.strip, but not *)
(*                    the " " that str.replace(" ", "") removes)           *)
(*     "a", "b"       two kanji/kana characters of a verb                  *)
(*     "_"    U+005F  LOW LINE                                             *)
(***************************************************************************)
EXTENDS Integers, Sequences, FiniteSets, TLC

VARIABLES
    heading,      \* parse_article: the text of the title element (before strip)
    tp_state,     \* "input" before parse_article ran on heading, then "none" | "record"
    tp_pair,      \* the value of verb_pair (scraper.py:188)
    tp_id         \* the value of verb_id   (scraper.py:197), <<>> when no record

VARIABLES
    cat_site,     \* the category pages the site serves: page URL -> page
    pc,           \* the position of the scrape run
    current_url,  \* get_article_urls_from_category: current_url
    urls,         \* get_article_urls_from_category: urls
    net_log       \* the time.sleep and requests.get calls of the run, in order

VARIABLES
    art_site,     \* the article pages the site serves: article URL -> page
    mode,         \* "all" (scrape_all) or "beginner" (scrape_beginner_only)
    runs,         \* the scrape runs started so far
    level_idx,    \* scrape_all: the position in CATEGORY_URLS.items()
    article_urls, \* scrape_level: article_urls
    idx,          \* scrape_level: the position of the loop over article_urls
    results,      \* scrape_level: results
    all_data,     \* scrape_all: all_data, as the list of the finished levels' results
    cur,          \* parse_article: the locals of the article being parsed
    data_files,   \* the record files written: record id -> record
    image_files,  \* the image files written: filename -> what was written
    combined_files, \* the combined documents written: file name -> content
    downloads     \* the successful image downloads so far: <<record id, URL>> -> count

VARIABLES
    sync_pc,      \* the position of the sync run
    sync_mode,    \* "all" (sync_all_verb_pairs) or the level given to sync_level
    sync_runs,    \* the sync runs started so far
    sync_queue,   \* the records the loop of the run goes through
    sync_i,       \* the position of that loop
    synced,       \* the ids of the records add_or_update_note returned for, this run
    added,        \* sync run: added
    updated,      \* sync run: updated
    sync_ops,     \* the AnkiConnect requests of the run, with their outcomes
    anki_decks,   \* the decks of the collection
    anki_models,  \* the note types of the collection
    anki_notes,   \* the notes of the collection, oldest first
    anki_media    \* the media files of the collection, oldest first

VARIABLES
    body,         \* parse_article: text, the text of the content element
    ex_state,     \* "input" before the text was mined, then "done"
    practice_questions, \* the record's practice_questions (scraper.py:291)
    answers       \* the record's answers (scraper.py:292)

title_vars == <<heading, tp_state, tp_pair, tp_id>>
text_vars == <<body, ex_state, practice_questions, answers>>
page_vars == <<cat_site, pc, current_url, urls, net_log>>

scrape_vars == <<art_site, mode, runs, level_idx, article_urls, idx, results,
                 all_data, cur, data_files, image_files, combined_files, downloads>>

sync_vars == <<sync_pc, sync_mode, sync_runs, sync_queue, sync_i, synced, added,
               updated, sync_ops, anki_decks, anki_models, anki_notes, anki_media>>

vars == <<heading, tp_state, tp_pair, tp_id,
          body, ex_state, practice_questions, answers,
          cat_site, pc, current_url, urls, net_log,
          art_site, mode, runs, level_idx, article_urls, idx, results,
          all_data, cur, data_files, image_files, combined_files, downloads,
          sync_pc, sync_mode, sync_runs, sync_queue, sync_i, synced, added,
          updated, sync_ops, anki_decks, anki_models, anki_notes, anki_media>>

----------------------------------------------------------------------------
(* Bounds *)

MaxTitleLen == 5

\* The longest category listing (anchors over all its pages), the anchors a
\* category page shows, and the requests of one page URL followed in a run.
MaxLinks == 4
PerPage == 2
MaxVisits == 2

\* The pieces a body text is put together from.
MaxBodyPieces == 4

\* The scrape runs started one after the other on the same directories.
MaxRuns == 2

\* The sync runs started one after the other on the same collection.
MaxSyncRuns == 2

----------------------------------------------------------------------------
(* Python string primitives *)

Chars == {"a", "b", "DOT", "FSL", "/", "BAR", "|", " ", "ISP"}

\* The characters str.strip() removes (str.isspace) among Chars.
Whitespace == {" ", "ISP"}

\* Python's None, and the empty string.
None == <<>>
EmptyStr == <<>>

\* The empty function (no file, no page).
NoFiles == <<>>

\* The values of the variables a specification leaves unused.
TitleIdle ==
    /\ heading = EmptyStr
    /\ tp_state = "off"
    /\ tp_pair = None
    /\ tp_id = EmptyStr

TextIdle ==
    /\ body = EmptyStr
    /\ ex_state = "off"
    /\ practice_questions = <<>>
    /\ answers = <<>>

PageIdle ==
    /\ cat_site = NoFiles
    /\ pc = "off"
    /\ current_url = ""
    /\ urls = <<>>
    /\ net_log = <<>>

ScrapeIdle ==
    /\ art_site = NoFiles
    /\ mode = ""
    /\ runs = 0
    /\ level_idx = 0
    /\ article_urls = <<>>
    /\ idx = 0
    /\ results = <<>>
    /\ all_data = <<>>
    /\ cur = <<>>
    /\ data_files = NoFiles
    /\ image_files = NoFiles
    /\ combined_files = NoFiles
    /\ downloads = NoFiles

SyncIdle ==
    /\ sync_pc = "off"
    /\ sync_mode = ""
    /\ sync_runs = 0
    /\ sync_queue = <<>>
    /\ sync_i = 0
    /\ synced = <<>>
    /\ added = 0
    /\ updated = 0
    /\ sync_ops = <<>>
    /\ anki_decks = {}
    /\ anki_models = {}
    /\ anki_notes = <<>>
    /\ anki_media = <<>>

RECURSIVE SeqsUpTo(_, _)
SeqsUpTo(S, n) ==
    IF n = 0 THEN {<<>>}
    ELSE LET shorter == SeqsUpTo(S, n - 1)
         IN  shorter \cup {Append(s, c) : s \in {x \in shorter : Len(x) = n - 1}, c \in S}

Min(a, b) == IF a < b THEN a ELSE b

\* c in s
Contains(s, c) == \E i \in 1..Len(s) : s[i] = c

\* The index of the first character of s that is in set S, 0 if there is none.
FirstIn(s, S) ==
    IF \E i \in 1..Len(s) : s[i] \in S
    THEN CHOOSE i \in 1..Len(s) : s[i] \in S /\ \A j \in 1..(i - 1) : s[j] \notin S
    ELSE 0

RECURSIVE PyLStrip(_)
PyLStrip(s) ==
    IF s # <<>> /\ Head(s) \in Whitespace THEN PyLStrip(Tail(s)) ELSE s

RECURSIVE PyRStrip(_)
PyRStrip(s) ==
    IF s # <<>> /\ s[Len(s)] \in Whitespace
    THEN PyRStrip(SubSeq(s, 1, Len(s) - 1))
    ELSE s

\* str.strip()
PyStrip(s) == PyRStrip(PyLStrip(s))

\* str.split(sep) for a one-character sep: the list of the pieces between
\* the occurrences of sep (occurrences + 1 pieces, empty pieces kept).
RECURSIVE PySplit(_, _)
PySplit(s, sep) ==
    LET i == FirstIn(s, {sep})
    IN  IF i = 0 THEN <<s>>
        ELSE <<SubSeq(s, 1, i - 1)>> \o PySplit(SubSeq(s, i + 1, Len(s)), sep)

\* str.replace(c, "") for a one-character c
RECURSIVE PyRemove(_, _)
PyRemove(s, c) ==
    IF s = <<>> THEN <<>>
    ELSE IF Head(s) = c THEN PyRemove(Tail(s), c)
         ELSE <<Head(s)>> \o PyRemove(Tail(s), c)

----------------------------------------------------------------------------
(* parse_verb_pair_title and the record id *)

\* re.split(r"[｜|]", title)[0]: the text before the first vertical bar.
BeforeBar(title) ==
    LET i == FirstIn(title, {"BAR", "|"})
    IN  IF i = 0 THEN title ELSE SubSeq(title, 1, i - 1)

\* The separators in the order the loop tries them.
Separators == <<"DOT", "FSL", "/">>

\* The loop of scraper.py:143-149 from separator number k on: the first
\* separator that occurs in t and splits it in exactly two parts decides.
RECURSIVE SplitFrom(_, _)
SplitFrom(t, k) ==
    IF k > Len(Separators) THEN None
    ELSE LET parts == PySplit(t, Separators[k])
         IN  IF Contains(t, Separators[k]) /\ Len(parts) = 2
             THEN <<PyStrip(parts[1]), PyStrip(parts[2])>>
             ELSE SplitFrom(t, k + 1)

parse_verb_pair_title(title) == SplitFrom(PyStrip(BeforeBar(title)), 1)

\* A mutant: the id without the "_" between the two forms.
MakeVerbIdNoUnderscore(intransitive, transitive) ==
    PyRemove(intransitive \o transitive, " ")

\* f"{intransitive}_{transitive}".replace(" ", "")
MakeVerbId(intransitive, transitive) ==
    PyRemove(intransitive \o <<"_">> \o transitive, " ")

\* Tag.get_text(strip=True) of a title element holding one string.
GetTextStrip(text) == PyStrip(text)

\* Python truthiness of parse_verb_pair_title's result: None is false, a
\* 2-tuple is true whatever its members.
Truthy(pair) == pair # None

----------------------------------------------------------------------------
(* URLs, hrefs and the pages of the site *)

BASE_URL == "https://www.edewakaru.com"

Levels == <<"beginner", "intermediate", "advanced">>

CATEGORY_URLS ==
    [beginner     |-> "https://www.edewakaru.com/archives/cat_116824.html",
     intermediate |-> "https://www.edewakaru.com/archives/cat_116825.html",
     advanced     |-> "https://www.edewakaru.com/archives/cat_116826.html"]

\* The path part of each category URL.
CategoryPath ==
    [beginner     |-> "/archives/cat_116824.html",
     intermediate |-> "/archives/cat_116825.html",
     advanced     |-> "/archives/cat_116826.html"]

\* The path of page k of a level's category listing.
PagePath(level, k) ==
    IF k = 1 THEN CategoryPath[level]
    ELSE CategoryPath[level] \o "?p=" \o ToString(k)

ArticlePaths ==
    {"/archives/12345.html", "/archives/23456.html", "/archives/34567.html"}

\* An href attribute is [abs, path]: the text BASE_URL + path when abs, the
\* root-relative text path otherwise ([abs |-> FALSE, path |-> ""] is the
\* empty string a missing href defaults to).
Href(abs, path) == [abs |-> abs, path |-> path]
EmptyHref == Href(FALSE, "")

\* The hrefs the anchors of a category page are drawn from: an article in
\* relative and in absolute form, a second article, a category link, an
\* anchor into an article page, and an anchor without href.
AnchorHrefs ==
    {Href(FALSE, "/archives/12345.html"),
     Href(TRUE,  "/archives/12345.html"),
     Href(FALSE, "/archives/23456.html"),
     Href(FALSE, "/archives/cat_116825.html"),
     Href(FALSE, "/archives/12345.html#comments"),
     EmptyHref}

\* "/archives/" in href
HasArchives(href) == href.path # ""

\* href.endswith(".html")
EndsWithHtml(href) ==
    \/ href.path \in ArticlePaths
    \/ \E l \in DOMAIN CategoryPath : href.path = CategoryPath[l]

\* "cat_" in href
HasCat(href) ==
    \E l \in DOMAIN CategoryPath, k \in 1..(MaxLinks + 1) : href.path = PagePath(l, k)

\* scraper.py:73
IsArticleHref(href) == HasArchives(href) /\ EndsWithHtml(href) /\ ~HasCat(href)

\* urllib.parse.urljoin(base, href) for the hrefs above: an absolute href
\* of this site and a root-relative one both name base + path, and the
\* empty href names base itself.
urljoin(base, href) == base \o href.path

\* Python truthiness of an href string.
HrefTruthy(href) == href # EmptyHref

\* An optional value: <<>> for None (no element, no attribute), <<v>> for v.
Some(v) == <<v>>

----------------------------------------------------------------------------
(* get_article_urls_from_category *)

\* A mutant: every matching URL is appended, seen before or not.
RECURSIVE CollectNoDedup(_, _)
CollectNoDedup(found, anchors) ==
    IF anchors = <<>> THEN found
    ELSE LET href == Head(anchors)
             full_url == urljoin(BASE_URL, href)
         IN  CollectNoDedup(
                 IF IsArticleHref(href) THEN Append(found, full_url) ELSE found,
                 Tail(anchors))

\* The loop of scraper.py:71-76 over the anchors soup.select returned.
RECURSIVE CollectUrls(_, _)
CollectUrls(found, anchors) ==
    IF anchors = <<>> THEN found
    ELSE LET href == Head(anchors)
             full_url == urljoin(BASE_URL, href)
         IN  CollectUrls(
                 IF IsArticleHref(href) /\ ~Contains(found, full_url)
                 THEN Append(found, full_url)
                 ELSE found,
                 Tail(anchors))

\* scraper.py:85-91: the number of the last pager entry marked current whose
\* text is an integer; <<>> when there is none.
RECURSIVE CurrentPage(_, _)
CurrentPage(pager, current_page) ==
    IF pager = <<>> THEN current_page
    ELSE LET p == Head(pager)
         IN  CurrentPage(Tail(pager),
                         IF p.current /\ p.is_int THEN Some(p.val) ELSE current_page)

\* scraper.py:94-101: the href of the first pager entry numbered n (None
\* when that entry has no href, or when there is no such entry).
RECURSIVE NextPageLink(_, _)
NextPageLink(pager, n) ==
    IF pager = <<>> THEN None
    ELSE LET p == Head(pager)
         IN  IF p.is_int /\ p.val = n THEN p.href
             ELSE NextPageLink(Tail(pager), n)

\* scraper.py:79-107: the value of current_url after a fetched page; "" when
\* the loop is to end.
NextUrl(page) ==
    IF page.next_link # None
    THEN urljoin(BASE_URL, page.next_link[1])
    ELSE LET current_page == CurrentPage(page.pager, None)
         IN  IF current_page # None /\ current_page[1] # 0
             THEN LET next_page_link == NextPageLink(page.pager, current_page[1] + 1)
                  IN  IF next_page_link # None /\ HrefTruthy(next_page_link[1])
                      THEN urljoin(BASE_URL, next_page_link[1])
                      ELSE ""
             ELSE ""

REQUEST_DELAY == 1000   \* milliseconds

SleepEvent(ms) == [op |-> "sleep", ms |-> ms, url |-> "", ok |-> TRUE]
GetEvent(url, ok) == [op |-> "get", ms |-> 0, url |-> url, ok |-> ok]

\* A mutant: the page is requested without the delay before it.
FetchPageEventsNoDelay(url, ok) == <<GetEvent(url, ok)>>

\* fetch_page (scraper.py:46-55): sleep REQUEST_DELAY, then requests.get.
FetchPageEvents(url, ok) == <<SleepEvent(REQUEST_DELAY), GetEvent(url, ok)>>

\* The requests of url made so far.
Visits(log, url) ==
    Cardinality({i \in 1..Len(log) : log[i].op = "get" /\ log[i].url = url})

\* scraper.py:63-107, one iteration of the loop: fetch current_url (the
\* request succeeds only for a page the site serves, and may fail then
\* too), collect its article links and move to the next page; the loop ends
\* on a failed fetch or when no next page is found, and scrape_level goes on
\* to the articles (scraper.py:302-306).
FetchCategoryPage ==
    /\ pc = "paginate"
    /\ Visits(net_log, current_url) < MaxVisits
    /\ \E ok \in BOOLEAN :
        /\ ok => current_url \in DOMAIN cat_site
        /\ net_log' = net_log \o FetchPageEvents(current_url, ok)
        /\ LET page == cat_site[current_url]
               found == IF ok THEN CollectUrls(urls, page.anchors) ELSE urls
               next_url == IF ok THEN NextUrl(page) ELSE ""
           IN  /\ urls' = found
               /\ IF next_url # ""
                  THEN /\ current_url' = next_url
                       /\ pc' = "paginate"
                       /\ UNCHANGED <<article_urls, idx, results>>
                  ELSE /\ current_url' = ""
                       /\ pc' = "articles"
                       /\ article_urls' = found
                       /\ idx' = 1
                       /\ results' = <<>>
    /\ UNCHANGED <<title_vars, text_vars, sync_vars, cat_site, art_site, mode, runs, level_idx, all_data,
                   cur, data_files, image_files, combined_files, downloads>>

----------------------------------------------------------------------------
(* download_image *)

\* Three image URLs:
\*   IMG1  on livedoor.blogimg.jp, path suffix ".jpg"
\*   IMG2  on resize.blogsys.jp, no path suffix
\*   IMG3  on neither host
IMG1 == "https://livedoor.blogimg.jp/edewakaru/imgs/a/b/ab12cd34.jpg"
IMG2 == "https://resize.blogsys.jp/thumb/ef90ab12"
IMG3 == "https://parts.blog.livedoor.jp/img/usr/cmn/btn_add_line.png"

\* hashlib.md5(img_url.encode()).hexdigest()[:8]
Md5Prefix(img_url) ==
    CASE img_url = IMG1 -> "d22ded38"
      [] img_url = IMG2 -> "0c4dfad4"
      [] img_url = IMG3 -> "46bb3fa1"

\* Path(urlparse(img_url).path).suffix
UrlSuffix(img_url) ==
    CASE img_url = IMG1 -> ".jpg"
      [] img_url = IMG2 -> ""
      [] img_url = IMG3 -> ".png"

\* scraper.py:263: src and "resize.blogsys.jp" in src or "livedoor.blogimg.jp" in src
IsTrustedImage(src) == src \in {IMG1, IMG2}

\* scraper.py:116-118: the file name, as the characters of the record id
\* followed by "_", the hash and the extension.
ImageFilename(img_url, verb_pair_id) ==
    LET url_hash == Md5Prefix(img_url)
        ext == IF UrlSuffix(img_url) # "" THEN UrlSuffix(img_url) ELSE ".jpg"
    IN  verb_pair_id \o <<"_", url_hash, ext>>

\* open(DIR / name, "w") of a name no file has yet: it succeeds for a name
\* without "/"; a name that starts with its only "/" is an absolute path in
\* the root directory, where the write succeeds or is refused; any other
\* name with "/" lies in a directory nothing creates, and open raises.
WriteOutcomes(name) ==
    IF ~Contains(name, "/") THEN {TRUE}
    ELSE IF name[1] = "/" /\ ~Contains(Tail(name), "/") THEN {TRUE, FALSE}
    ELSE {FALSE}

\* A mutant: no look at the image directory before the download.
DownloadImageAlways(files, img_url, verb_pair_id, get_ok, write_ok, stamp) ==
    LET filename == ImageFilename(img_url, verb_pair_id)
        events == <<SleepEvent(REQUEST_DELAY \div 2), GetEvent(img_url, get_ok)>>
    IN  IF get_ok /\ write_ok
        THEN [ret |-> Some(filename), events |-> events, wrote |-> TRUE,
              files |-> (filename :> [url |-> img_url, run |-> stamp]) @@ files]
        ELSE [ret |-> None, files |-> files, events |-> events, wrote |-> FALSE]

\* download_image (scraper.py:112-134) on the image directory `files`: the
\* value returned, the directory afterwards, the sleep and request made,
\* and whether a file was written.  get_ok: the request succeeded;
\* write_ok: the file could be opened for writing.
DownloadImage(files, img_url, verb_pair_id, get_ok, write_ok, stamp) ==
    LET filename == ImageFilename(img_url, verb_pair_id)
        events == <<SleepEvent(REQUEST_DELAY \div 2), GetEvent(img_url, get_ok)>>
    IN  IF filename \in DOMAIN files
        THEN [ret |-> Some(filename), files |-> files, events |-> <<>>, wrote |-> FALSE]
        ELSE IF get_ok /\ write_ok
        THEN [ret |-> Some(filename), events |-> events, wrote |-> TRUE,
              files |-> (filename :> [url |-> img_url, run |-> stamp]) @@ files]
        ELSE [ret |-> None, files |-> files, events |-> events, wrote |-> FALSE]

----------------------------------------------------------------------------
(* parse_article, scrape_level, scrape_all, scrape_beginner_only *)

\* scraper.py:190: "if not verb_pair" lets every 2-tuple through.
PairUsable(verb_pair) == Truthy(verb_pair)

\* scraper.py:261-263: the sources of the first five img tags that pass the
\* host test.
CandidateImages(imgs) ==
    SelectSeq(SubSeq(imgs, 1, Min(5, Len(imgs))), IsTrustedImage)

\* The record parse_article returns (scraper.py:276-295), without the
\* fields mined from the body text.
Record(c, level) ==
    [id           |-> c.id,
     title        |-> c.title,
     level        |-> level,
     intransitive |-> c.pair[1],
     transitive   |-> c.pair[2],
     images       |-> c.images,
     source_url   |-> c.url]

\* The name of a level's combined document, and of the grand-combined one.
LevelFileName(level) == level \o "_verb_pairs.json"
AllFileName == "all_verb_pairs.json"

\* A mutant: the failure is not caught and ends the run.
NoRecordOutcomeRaises(i) == [pc |-> "crashed", idx |-> i]

\* scraper.py:53-55, 175-176, 183-185, 190-192 and 307-308: a failure is
\* caught where it happens, parse_article returns None for article i and
\* the loop of scrape_level goes on to the next URL.
NoRecordOutcome(i) == [pc |-> "articles", idx |-> i + 1]

\* The start of scrape_all (mode "all") or scrape_beginner_only (mode
\* "beginner"), up to the first call of get_article_urls_from_category.
StartScrape ==
    /\ pc \in {"idle", "done", "crashed"}
    /\ runs < MaxRuns
    /\ \E m \in {"all", "beginner"} : mode' = m
    /\ runs' = runs + 1
    /\ level_idx' = 1
    /\ all_data' = NoFiles
    /\ current_url' = CATEGORY_URLS[Levels[1]]
    /\ urls' = <<>>
    /\ net_log' = <<>>
    /\ article_urls' = <<>>
    /\ idx' = 0
    /\ results' = <<>>
    /\ pc' = "paginate"
    /\ UNCHANGED <<title_vars, text_vars, sync_vars, cat_site, art_site, cur,
                   data_files, image_files, combined_files, downloads>>

\* parse_article up to the image loop (scraper.py:171-257) for the next
\* URL of scrape_level's loop: a failed fetch, a missing title element or an
\* unparseable title return None, and the loop goes on (scraper.py:306-308).
ParseArticle ==
    /\ pc = "articles"
    /\ idx <= Len(article_urls)
    /\ LET url == article_urls[idx]
       IN  \E ok \in BOOLEAN :
            /\ ok => url \in DOMAIN art_site
            /\ net_log' = net_log \o FetchPageEvents(url, ok)
            /\ LET page == art_site[url]
                   title == GetTextStrip(page.heading)
                   verb_pair == parse_verb_pair_title(title)
               IN  IF ok /\ page.has_title /\ PairUsable(verb_pair)
                   THEN /\ cur' = [url     |-> url,
                                   title   |-> title,
                                   pair    |-> verb_pair,
                                   id      |-> MakeVerbId(verb_pair[1], verb_pair[2]),
                                   pending |-> CandidateImages(page.imgs),
                                   images  |-> <<>>]
                        /\ pc' = "images"
                        /\ UNCHANGED idx
                   ELSE /\ idx' = NoRecordOutcome(idx).idx
                        /\ pc' = NoRecordOutcome(idx).pc
                        /\ UNCHANGED cur
    /\ UNCHANGED <<title_vars, text_vars, sync_vars, cat_site, current_url, urls, art_site, mode, runs,
                   level_idx, article_urls, results, all_data, data_files,
                   image_files, combined_files, downloads>>

\* One iteration of the image loop (scraper.py:261-270).
DownloadNextImage ==
    /\ pc = "images"
    /\ cur.pending # <<>>
    /\ LET src == Head(cur.pending)
       IN  \E get_ok \in BOOLEAN, write_ok \in WriteOutcomes(ImageFilename(src, cur.id)) :
            LET r == DownloadImage(image_files, src, cur.id, get_ok, write_ok, runs)
            IN  /\ image_files' = r.files
                /\ net_log' = net_log \o r.events
                /\ cur' = [cur EXCEPT
                             !.pending = Tail(@),
                             !.images = IF r.ret # None
                                        THEN Append(@, [filename |-> r.ret[1],
                                                        original_url |-> src])
                                        ELSE @]
                /\ downloads' =
                     IF r.wrote
                     THEN LET k == <<cur.id, src>>
                          IN  (k :> (IF k \in DOMAIN downloads THEN downloads[k] + 1 ELSE 1))
                              @@ downloads
                     ELSE downloads
    /\ UNCHANGED <<title_vars, text_vars, sync_vars, cat_site, pc, current_url, urls, art_site, mode, runs,
                   level_idx, article_urls, idx, results, all_data, data_files,
                   combined_files>>

\* The return of parse_article and the rest of the loop body
\* (scraper.py:276-314): the record is appended to results and written to
\* {id}.json; an open() that raises ends the run.
SaveArticle ==
    /\ pc = "images"
    /\ cur.pending = <<>>
    /\ LET data == Record(cur, Levels[level_idx])
       IN  /\ results' = Append(results, data)
           /\ \E write_ok \in WriteOutcomes(data.id \o <<".json">>) :
                IF write_ok
                THEN /\ data_files' = (data.id :> data) @@ data_files
                     /\ idx' = idx + 1
                     /\ pc' = "articles"
                ELSE /\ pc' = "crashed"
                     /\ UNCHANGED <<data_files, idx>>
    /\ cur' = <<>>
    /\ UNCHANGED <<title_vars, text_vars, sync_vars, cat_site, current_url, urls, net_log, art_site, mode,
                   runs, level_idx, article_urls, all_data, image_files,
                   combined_files, downloads>>

\* scrape_all (scraper.py:325-327): a level is done and the next one starts.
NextLevel ==
    /\ pc = "articles"
    /\ idx > Len(article_urls)
    /\ mode = "all"
    /\ level_idx < Len(Levels)
    /\ all_data' = (Levels[level_idx] :> results) @@ all_data
    /\ level_idx' = level_idx + 1
    /\ current_url' = CATEGORY_URLS[Levels[level_idx + 1]]
    /\ urls' = <<>>
    /\ pc' = "paginate"
    /\ UNCHANGED <<title_vars, text_vars, sync_vars, cat_site, net_log, art_site, mode, runs, article_urls,
                   idx, results, cur, data_files, image_files, combined_files,
                   downloads>>

\* scrape_all (scraper.py:327-336): the last level is done and the combined
\* document is written.
FinishAll ==
    /\ pc = "articles"
    /\ idx > Len(article_urls)
    /\ mode = "all"
    /\ level_idx = Len(Levels)
    /\ all_data' = (Levels[level_idx] :> results) @@ all_data
    /\ combined_files' = (AllFileName :> all_data') @@ combined_files
    /\ pc' = "done"
    /\ UNCHANGED <<title_vars, text_vars, sync_vars, cat_site, current_url, urls, net_log, art_site, mode,
                   runs, level_idx, article_urls, idx, results, cur, data_files,
                   image_files, downloads>>

\* scrape_beginner_only (scraper.py:343-352): the level document is written.
FinishBeginner ==
    /\ pc = "articles"
    /\ idx > Len(article_urls)
    /\ mode = "beginner"
    /\ combined_files' = (LevelFileName("beginner") :> results) @@ combined_files
    /\ pc' = "done"
    /\ UNCHANGED <<title_vars, text_vars, sync_vars, cat_site, current_url, urls, net_log, art_site, mode,
                   runs, level_idx, article_urls, idx, results, all_data, cur,
                   data_files, image_files, downloads>>

----------------------------------------------------------------------------
(* The category listings the paginator is run on *)

\* The pages a listing of `links` anchors takes at per_page anchors a page.
PageCount(links, per_page) ==
    IF Len(links) = 0 THEN 1 ELSE (Len(links) + per_page - 1) \div per_page

\* The anchors of page k.
PageAnchors(links, per_page, k) ==
    SubSeq(links, (k - 1) * per_page + 1, Min(k * per_page, Len(links)))

\* The pager of page k of n: an entry per page, its number as text, the
\* entry of page k marked current, then a "next" arrow whose text is no
\* number; on the last page, when back > 0, an entry numbered n + 1 that
\* leads to page `back`.
Pager(level, n, k, back) ==
    [j \in 1..n |-> [is_int |-> TRUE, val |-> j, current |-> (j = k),
                     href |-> Some(Href(FALSE, PagePath(level, j)))]]
    \o (IF k = n /\ back > 0
        THEN <<[is_int |-> TRUE, val |-> n + 1, current |-> FALSE,
                href |-> Some(Href(FALSE, PagePath(level, back)))]>>
        ELSE <<>>)
    \o <<[is_int |-> FALSE, val |-> 0, current |-> FALSE,
          href |-> IF k < n THEN Some(Href(FALSE, PagePath(level, k + 1))) ELSE None]>>

\* The category of a level: its listing `links` cut in pages of per_page
\* anchors, page k leading to page k + 1 by a rel="next" link (style "rel")
\* or by a numbered pager (style "numbered"); the last page leads nowhere
\* when back = 0 and to page `back` otherwise.
Category(level, links, per_page, style, back) ==
    LET n == PageCount(links, per_page)
        target(k) == IF k < n THEN k + 1 ELSE back
    IN  [u \in {BASE_URL \o PagePath(level, k) : k \in 1..n} |->
            LET k == CHOOSE j \in 1..n : u = BASE_URL \o PagePath(level, j)
            IN  [anchors   |-> PageAnchors(links, per_page, k),
                 next_link |-> IF style = "rel" /\ target(k) > 0
                               THEN Some(Href(FALSE, PagePath(level, target(k))))
                               ELSE None,
                 pager     |-> IF style = "numbered"
                               THEN Pager(level, n, k, back)
                               ELSE <<>>]]

\* get_article_urls_from_category(CATEGORY_URLS["beginner"]) on every
\* category listing within the bounds.
InitPaginate ==
    /\ TitleIdle
    /\ TextIdle
    /\ ScrapeIdle
    /\ SyncIdle
    /\ \E links \in SeqsUpTo(AnchorHrefs, MaxLinks), per_page \in 1..PerPage,
          style \in {"rel", "numbered"} :
         \E back \in {0, 1, PageCount(links, per_page)} :
            cat_site = Category("beginner", links, per_page, style, back)
    /\ pc = "paginate"
    /\ current_url = CATEGORY_URLS["beginner"]
    /\ urls = <<>>
    /\ net_log = <<>>

NextPaginate == FetchCategoryPage

SpecPaginate == InitPaginate /\ [][NextPaginate]_vars

\* The URL of page k of the beginner category, and the pages it has.
BeginnerPage(k) == BASE_URL \o PagePath("beginner", k)
BeginnerPageCount == Cardinality(DOMAIN cat_site)

\* The anchors of pages 1..k of the beginner category, in page order.
RECURSIVE AnchorsUpTo(_)
AnchorsUpTo(k) ==
    IF k = 0 THEN <<>> ELSE AnchorsUpTo(k - 1) \o cat_site[BeginnerPage(k)].anchors

\* The article URLs on the pages, in page order, repeats included.
ArticleUrlsOnPages ==
    LET all == AnchorsUpTo(BeginnerPageCount)
        article == SelectSeq(all, IsArticleHref)
    IN  [i \in 1..Len(article) |-> urljoin(BASE_URL, article[i])]

\* The first occurrence of each member of seq, in order.
RECURSIVE FirstOccurrences(_)
FirstOccurrences(seq) ==
    IF seq = <<>> THEN <<>>
    ELSE LET front == SubSeq(seq, 1, Len(seq) - 1)
             last == seq[Len(seq)]
         IN  IF Contains(front, last) THEN FirstOccurrences(front)
             ELSE Append(FirstOccurrences(front), last)

\* Every page but the last leads to the page after it, the last nowhere.
StandardNextLinks ==
    /\ \A k \in 1..(BeginnerPageCount - 1) :
          NextUrl(cat_site[BeginnerPage(k)]) = BeginnerPage(k + 1)
    /\ NextUrl(cat_site[BeginnerPage(BeginnerPageCount)]) = ""

\* The requests of the log, and whether all of them succeeded.
Gets(log) == SelectSeq(log, LAMBDA e : e.op = "get")
AllGetsOk(log) == \A i \in 1..Len(log) : log[i].ok

\* C4: for a category of n pages linked by next links, every fetch
\* succeeding, the paginator requests pages 1..n once each in order and
\* returns every article URL of the pages, once each, in order of first
\* discovery.
C4_PaginatorReturnsAllArticleUrlsOnce ==
    (pc = "articles" /\ StandardNextLinks /\ AllGetsOk(net_log)) =>
        /\ article_urls = FirstOccurrences(ArticleUrlsOnPages)
        /\ \A i, j \in 1..Len(article_urls) :
              article_urls[i] = article_urls[j] => i = j
        /\ Gets(net_log) = [k \in 1..BeginnerPageCount |-> GetEvent(BeginnerPage(k), TRUE)]

\* A 3-page category whose pages repeat an article link has been walked to
\* its end, and two distinct articles were returned.
C4_Witness ==
    /\ pc = "articles" /\ StandardNextLinks /\ AllGetsOk(net_log)
    /\ BeginnerPageCount = 3
    /\ cat_site[BeginnerPage(1)].next_link # None
    /\ Len(ArticleUrlsOnPages) = 3
    /\ Len(article_urls) = 2

\* C13: in one run of get_article_urls_from_category no page URL is
\* requested twice, wherever the next-page links of the pages lead.
C13_NoCategoryPageFetchedTwice ==
    \A i, j \in 1..Len(net_log) :
        (net_log[i].op = "get" /\ net_log[j].op = "get"
            /\ net_log[i].url = net_log[j].url) => i = j

----------------------------------------------------------------------------
(* SpecScrape: scrape runs over a site of three categories *)

ArticleUrl1 == "https://www.edewakaru.com/archives/12345.html"
ArticleUrl2 == "https://www.edewakaru.com/archives/23456.html"
ArticleUrl3 == "https://www.edewakaru.com/archives/34567.html"

\* The article pages a URL may serve: the heading text of the title
\* element (if there is one) and the src of the img tags of the body.
ArticleSamples ==
    { \* "a・b｜a" with six img tags, the sixth beyond the limit of five
      [has_title |-> TRUE, heading |-> <<"a", "DOT", "b", "BAR", "a">>,
       imgs |-> <<IMG1, IMG3, IMG1, IMG3, IMG3, IMG2>>],
      \* " a /b": the same pair written with another separator
      [has_title |-> TRUE, heading |-> <<" ", "a", " ", "/", "b">>, imgs |-> <<IMG1>>],
      \* no title element
      [has_title |-> FALSE, heading |-> EmptyStr, imgs |-> <<IMG1>>],
      \* "ab": no separator
      [has_title |-> TRUE, heading |-> <<"a", "b">>, imgs |-> <<IMG1>>],
      \* "a・": nothing after the separator
      [has_title |-> TRUE, heading |-> <<"a", "DOT">>, imgs |-> <<>>],
      \* "a・/b": the second form holds a path separator
      [has_title |-> TRUE, heading |-> <<"a", "DOT", "/", "b">>, imgs |-> <<IMG1>>],
      \* "/a・b": the first form starts with a path separator
      [has_title |-> TRUE, heading |-> <<"/", "a", "DOT", "b">>, imgs |-> <<IMG2>>],
      \* "b／a"
      [has_title |-> TRUE, heading |-> <<"b", "FSL", "a">>, imgs |-> <<IMG2>>] }

\* The article of the intermediate level: "b／a" with one image.
IntermediateArticle ==
    [has_title |-> TRUE, heading |-> <<"b", "FSL", "a">>, imgs |-> <<IMG2>>]

\* The categories: beginner lists article 1 twice (relative and absolute)
\* and article 2, over pages of PerPage anchors; intermediate lists article
\* 3 behind a numbered pager; advanced lists no article.
ScrapeCategories ==
    Category("beginner",
             <<Href(FALSE, "/archives/12345.html"), Href(TRUE, "/archives/12345.html"),
               Href(FALSE, "/archives/23456.html")>>, PerPage, "rel", 0)
    @@ Category("intermediate", <<Href(FALSE, "/archives/34567.html")>>, PerPage,
                "numbered", 0)
    @@ Category("advanced", <<Href(FALSE, "/archives/cat_116825.html")>>, PerPage,
                "rel", 0)

InitScrape ==
    /\ TitleIdle
    /\ TextIdle
    /\ SyncIdle
    /\ cat_site = ScrapeCategories
    /\ \E first, second \in ArticleSamples :
         art_site = (ArticleUrl1 :> first) @@ (ArticleUrl2 :> second)
                    @@ (ArticleUrl3 :> IntermediateArticle)
    /\ pc = "idle"
    /\ current_url = ""
    /\ urls = <<>>
    /\ net_log = <<>>
    /\ mode = ""
    /\ runs = 0
    /\ level_idx = 0
    /\ article_urls = <<>>
    /\ idx = 0
    /\ results = <<>>
    /\ all_data = NoFiles
    /\ cur = <<>>
    /\ data_files = NoFiles
    /\ image_files = NoFiles
    /\ combined_files = NoFiles
    /\ downloads = NoFiles

NextScrape ==
    \/ StartScrape
    \/ FetchCategoryPage
    \/ ParseArticle
    \/ DownloadNextImage
    \/ SaveArticle
    \/ NextLevel
    \/ FinishAll
    \/ FinishBeginner

SpecScrape == InitScrape /\ [][NextScrape]_vars

\* C2: no record file holds a record whose intransitive or transitive
\* kanji form is empty.
C2_NoPersistedRecordHasEmptyKanji ==
    \A id \in DOMAIN data_files :
        /\ data_files[id].intransitive # EmptyStr
        /\ data_files[id].transitive # EmptyStr

\* The last entry of a non-empty log.
Last(log) == log[Len(log)]

\* C5, first part: a download_image call whose file name already exists
\* makes no delay and no request, leaves the image directory as it is and
\* returns that file name (the image loop appends it to the record).
C5_ExistingFileStep ==
    (/\ pc = "images"
     /\ cur.pending # <<>>
     /\ ImageFilename(Head(cur.pending), cur.id) \in DOMAIN image_files)
    => (/\ net_log' = net_log
        /\ image_files' = image_files
        /\ downloads' = downloads
        /\ cur'.images = Append(cur.images,
                                [filename |-> ImageFilename(Head(cur.pending), cur.id),
                                 original_url |-> Head(cur.pending)]))

\* C5, second part: no (record id, URL) pair is downloaded successfully more
\* than once, and a written image file is never written again.
C5_AtMostOnce ==
    /\ \A k \in DOMAIN downloads : downloads[k] = 1
    /\ \A k \in DOMAIN downloads : ImageFilename(k[2], k[1]) \in DOMAIN image_files

\* C5: over any sequence of download_image calls, a call whose file exists
\* does nothing but return the name, and each (record id, URL) pair is
\* downloaded successfully at most once.
C5_DownloadAtMostOnce ==
    /\ []C5_AtMostOnce
    /\ [][C5_ExistingFileStep]_vars
    /\ [][\A f \in DOMAIN image_files :
            f \in DOMAIN image_files' /\ image_files'[f] = image_files[f]]_vars

\* In a second run the image of article "a_b" written by the first run has
\* been returned for the record without any request for it.
C5_Witness ==
    /\ runs = 2
    /\ pc = "images"
    /\ cur.id = <<"a", "_", "b">>
    /\ cur.images # <<>>
    /\ cur.images[1].original_url = IMG1
    /\ image_files[cur.images[1].filename].run = 1
    /\ \A i \in 1..Len(net_log) : net_log[i].url # IMG1
    /\ downloads[<<cur.id, IMG1>>] = 1

\* The next article of the loop cannot be extracted: its fetch failed (the
\* request just logged), it has no title element, or its title parses to no
\* pair.
ArticleFailsNow ==
    /\ pc = "articles"
    /\ idx <= Len(article_urls)
    /\ \/ ~Last(net_log').ok
       \/ ~art_site[article_urls[idx]].has_title
       \/ parse_verb_pair_title(GetTextStrip(art_site[article_urls[idx]].heading)) = None

\* The image request just logged failed.
ImageFailsNow ==
    /\ pc = "images"
    /\ cur.pending # <<>>
    /\ net_log' # net_log
    /\ ~Last(net_log').ok

\* C8: an article that cannot be extracted adds no record file and no
\* result and the loop moves to the next URL; a failed image download only
\* leaves that image out of the record being built; and when the loop of a
\* level ends, every article URL of the level has been requested.
C8_FailuresSkipOneArticle ==
    /\ [][ArticleFailsNow =>
            /\ data_files' = data_files
            /\ results' = results
            /\ idx' = idx + 1
            /\ pc' = "articles"]_vars
    /\ [][ImageFailsNow =>
            /\ cur'.images = cur.images
            /\ cur'.pending = Tail(cur.pending)
            /\ cur'.id = cur.id
            /\ pc' = "images"
            /\ UNCHANGED <<idx, results, data_files, image_files>>]_vars
    /\ []((pc = "articles" /\ idx > Len(article_urls)) =>
            \A i \in 1..Len(article_urls) :
                \E j \in 1..Len(net_log) :
                    net_log[j].op = "get" /\ net_log[j].url = article_urls[i])

\* The fetch of the first beginner article failed, the second article was
\* still processed and saved, with none of its images because the download
\* failed.
C8_Witness ==
    /\ pc = "articles"
    /\ level_idx = 1
    /\ idx = 3
    /\ \E j \in 1..Len(net_log) :
          net_log[j].op = "get" /\ net_log[j].url = ArticleUrl1 /\ ~net_log[j].ok
    /\ \E j \in 1..Len(net_log) :
          net_log[j].op = "get" /\ net_log[j].url = IMG1 /\ ~net_log[j].ok
    /\ Len(results) = 1
    /\ results[1].source_url = ArticleUrl2
    /\ results[1].images = <<>>
    /\ DOMAIN data_files = {results[1].id}

\* C9: every request in the log comes right after a sleep of its own:
\* REQUEST_DELAY before a page, REQUEST_DELAY / 2 before an image.
C9_EveryRequestFollowsItsDelay ==
    \A i \in 1..Len(net_log) :
        net_log[i].op = "get" =>
            /\ i > 1
            /\ net_log[i - 1].op = "sleep"
            /\ net_log[i - 1].ms = IF net_log[i].url \in {IMG1, IMG2, IMG3}
                                   THEN REQUEST_DELAY \div 2
                                   ELSE REQUEST_DELAY

\* A run has requested a category page, an article page and an image.
C9_Witness ==
    /\ Len(net_log) >= 6
    /\ \E i \in 1..Len(net_log) : net_log[i].op = "get" /\ net_log[i].url = IMG1
    /\ \E i \in 1..Len(net_log) : net_log[i].op = "get" /\ net_log[i].url = ArticleUrl1
    /\ \E i \in 1..Len(net_log) :
          net_log[i].op = "get" /\ net_log[i].url = CATEGORY_URLS["beginner"]

\* C10: after a completed run in "all levels" mode the record store holds
\* the combined document of each of the three levels and the grand-combined
\* document.
C10_AllModeWritesLevelFiles ==
    (pc = "done" /\ mode = "all") =>
        /\ AllFileName \in DOMAIN combined_files
        /\ \A i \in 1..Len(Levels) : LevelFileName(Levels[i]) \in DOMAIN combined_files

----------------------------------------------------------------------------
(* anki_sync.py: the AnkiConnect client *)

DECK_NAME == "Japanese::Verb Pairs"
MODEL_NAME == "Japanese Verb Pair"

\* A request sent by anki_request and how it ended: "ok" (a result came
\* back), "unreachable" (urlopen raised URLError) or "error" (the answer
\* carried an error); anki_request raises in the last two cases.
Op(action, outcome) == [action |-> action, outcome |-> outcome]
ReachOutcome(reach) == IF reach THEN "ok" ELSE "unreachable"

\* findNotes for the query "deck:DECK_NAME" "VerbPairID:verb_id", answered
\* exactly by deck and VerbPairID field: the ids of the matching notes.
AnkiFindNotes(notes, verb_id) ==
    LET hits == SelectSeq(notes, LAMBDA n : n.deck = DECK_NAME
                                            /\ n.fields.VerbPairID = verb_id)
    IN  [i \in 1..Len(hits) |-> hits[i].note_id]

\* What the collection may do with a storeMediaFile request, by the
\* interface anki_request("storeMediaFile", ...) relies on (anki_sync.py:
\* 302-307): keep the file under the name asked for, in the place of a file
\* of that name, and answer that name ("replace") or no name ("no_name");
\* or, a file of that name being there, keep both and answer the new name
\* the file was given ("rename").
StoreOutcomes == {"replace", "no_name", "rename"}

\* A name derived from filename that no media file of the collection has.
FreshName(media, filename) ==
    LET taken(k) == \E i \in 1..Len(media) :
                        media[i].filename = filename \o <<"(", ToString(k), ")">>
        k == CHOOSE n \in 1..(Len(media) + 1) :
                 ~taken(n) /\ \A m \in 1..(n - 1) : taken(m)
    IN  filename \o <<"(", ToString(k), ")">>

\* storeMediaFile: the media files after the request, and its result.
AnkiStoreMedia(media, filename, data, outcome) ==
    LET collides == \E i \in 1..Len(media) : media[i].filename = filename
    IN  IF outcome = "rename" /\ collides
        THEN LET new_name == FreshName(media, filename)
             IN  [media  |-> Append(media, [filename |-> new_name, data |-> data]),
                  result |-> Some(new_name)]
        ELSE [media  |-> Append(SelectSeq(media, LAMBDA m : m.filename # filename),
                                [filename |-> filename, data |-> data]),
              result |-> IF outcome = "no_name" THEN None ELSE Some(filename)]

\* store_image (anki_sync.py:291-307) once the file was found and the
\* request answered: "return stored_name or filename".
store_image(media, filename, data, outcome) ==
    LET answer == AnkiStoreMedia(media, filename, data, outcome)
    IN  [media |-> answer.media,
         stored_name |-> IF answer.result = None THEN filename ELSE answer.result[1]]

\* addNote with allowDuplicate false refuses a note whose first field
\* (VerbPairID) a note of the collection already has.
AnkiIsDuplicate(notes, fields) ==
    \E i \in 1..Len(notes) : notes[i].fields.VerbPairID = fields.VerbPairID

\* updateNoteFields
AnkiUpdateNote(notes, note_id, fields) ==
    [i \in 1..Len(notes) |->
        IF notes[i].note_id = note_id THEN [notes[i] EXCEPT !.fields = fields]
        ELSE notes[i]]

\* anki_sync.py:340: f'<img src="{stored_name}">'
ImageField(stored_name) == <<"<img src=\"">> \o stored_name \o <<"\">">>

\* anki_sync.py:343-355, without the fields mined from the body text.
NoteFields(verb_data, image_field) ==
    [VerbPairID        |-> verb_data.id,
     IntransitiveKanji |-> verb_data.intransitive,
     TransitiveKanji   |-> verb_data.transitive,
     Level             |-> verb_data.level,
     Image             |-> image_field,
     SourceURL         |-> verb_data.source_url]

\* anki_sync.py:357: "if existing"
NoteExists(existing) == existing # <<>>

\* add_or_update_note (anki_sync.py:325-382, with store_image 291-307) on
\* the collection (notes, media) and the image directory `files`.
\* reach[k] tells whether AnkiConnect answers the k-th possible request
\* (1 findNotes, 2 storeMediaFile, 3 updateNoteFields or addNote), and
\* `outcome` what the collection does with an answered storeMediaFile.  The
\* result is "added" (True returned), "updated" (False returned) or
\* "raised" (anki_request raised).
AddOrUpdateNote(notes, media, files, verb_data, reach, outcome) ==
    LET verb_id == verb_data.id
        existing == AnkiFindNotes(notes, verb_id)
        first_name == verb_data.images[1].filename
        stores == verb_data.images # <<>> /\ first_name \in DOMAIN files
        stored == store_image(media, first_name, files[first_name], outcome)
        media2 == IF stores THEN stored.media ELSE media
        image_field == IF stores THEN ImageField(stored.stored_name) ELSE EmptyStr
        fields == NoteFields(verb_data, image_field)
        ops2 == <<Op("findNotes", "ok")>>
                \o (IF stores THEN <<Op("storeMediaFile", "ok")>> ELSE <<>>)
        last_action == IF NoteExists(existing) THEN "updateNoteFields" ELSE "addNote"
    IN  IF ~reach[1]
        THEN [result |-> "raised", notes |-> notes, media |-> media,
              ops |-> <<Op("findNotes", "unreachable")>>]
        ELSE IF stores /\ ~reach[2]
        THEN [result |-> "raised", notes |-> notes, media |-> media,
              ops |-> <<Op("findNotes", "ok"), Op("storeMediaFile", "unreachable")>>]
        ELSE IF ~reach[3]
        THEN [result |-> "raised", notes |-> notes, media |-> media2,
              ops |-> Append(ops2, Op(last_action, "unreachable"))]
        ELSE IF NoteExists(existing)
        THEN [result |-> "updated", media |-> media2,
              notes |-> AnkiUpdateNote(notes, existing[1], fields),
              ops |-> Append(ops2, Op("updateNoteFields", "ok"))]
        ELSE IF AnkiIsDuplicate(notes, fields)
        THEN [result |-> "raised", notes |-> notes, media |-> media2,
              ops |-> Append(ops2, Op("addNote", "error"))]
        ELSE [result |-> "added", media |-> media2,
              notes |-> Append(notes, [note_id |-> Len(notes) + 1,
                                       deck |-> DECK_NAME,
                                       model |-> MODEL_NAME,
                                       fields |-> fields]),
              ops |-> Append(ops2, Op("addNote", "ok"))]

\* The record files of the data directory in the order sorted() gives their
\* names: "a_.json" < "a_b.json" < "b_a.json" ("." sorts before "b").
SortedRecordIds == << <<"a", "_">>, <<"a", "_", "b">>, <<"b", "_", "a">> >>

\* anki_sync.py:394-395, 402-404: the records of the *.json files of the
\* data directory (a record written outside it, its id holding "/", is not
\* among them), the combined *_verb_pairs.json documents left out.
RecordsOfDataDir(files) ==
    LET ids == SelectSeq(SortedRecordIds, LAMBDA id : id \in DOMAIN files)
    IN  [i \in 1..Len(ids) |-> files[ids[i]]]

\* The start of sync_all_verb_pairs (sync_mode "all") or sync_level, with
\* check_anki_connection (anki_sync.py:44-55, 387-388, 420-421): when the
\* version request fails the run returns at once.
StartSync ==
    /\ sync_pc \in {"idle", "done", "unreachable", "raised", "no_level_file"}
    /\ sync_runs < MaxSyncRuns
    /\ sync_runs' = sync_runs + 1
    /\ \E m \in {"all", "beginner", "intermediate", "advanced"} : sync_mode' = m
    /\ \E reach \in BOOLEAN :
        /\ sync_ops' = <<Op("version", ReachOutcome(reach))>>
        /\ sync_pc' = IF reach THEN "deck" ELSE "unreachable"
    /\ sync_queue' = <<>>
    /\ sync_i' = 0
    /\ synced' = <<>>
    /\ added' = 0
    /\ updated' = 0
    /\ UNCHANGED <<title_vars, text_vars, page_vars, scrape_vars,
                   anki_decks, anki_models, anki_notes, anki_media>>

\* ensure_deck_exists (anki_sync.py:58-65); a failed request raises, and
\* nothing in the run catches it.
EnsureDeck ==
    /\ sync_pc = "deck"
    /\ \E reach1, reach2 \in BOOLEAN :
        IF ~reach1
        THEN /\ sync_ops' = Append(sync_ops, Op("deckNames", "unreachable"))
             /\ sync_pc' = "raised"
             /\ UNCHANGED anki_decks
        ELSE IF DECK_NAME \in anki_decks
        THEN /\ sync_ops' = Append(sync_ops, Op("deckNames", "ok"))
             /\ sync_pc' = "model"
             /\ UNCHANGED anki_decks
        ELSE /\ sync_ops' = sync_ops \o <<Op("deckNames", "ok"),
                                          Op("createDeck", ReachOutcome(reach2))>>
             /\ sync_pc' = IF reach2 THEN "model" ELSE "raised"
             /\ anki_decks' = IF reach2 THEN anki_decks \cup {DECK_NAME} ELSE anki_decks
    /\ UNCHANGED <<title_vars, text_vars, page_vars, scrape_vars, sync_mode, sync_runs, sync_queue,
                   sync_i, synced, added, updated, anki_models, anki_notes, anki_media>>

\* ensure_model_exists (anki_sync.py:68-288), then the records of the run
\* are found (anki_sync.py:393-404 for sync_all_verb_pairs, 426-432 for
\* sync_level, which returns when the level's document is missing).
EnsureModel ==
    /\ sync_pc = "model"
    /\ \E reach1, reach2 \in BOOLEAN :
        LET exists == MODEL_NAME \in anki_models
            ok == reach1 /\ (exists \/ reach2)
            level_file == LevelFileName(sync_mode)
        IN  /\ sync_ops' = sync_ops
                  \o <<Op("modelNames", ReachOutcome(reach1))>>
                  \o (IF reach1 /\ ~exists
                      THEN <<Op("createModel", ReachOutcome(reach2))>> ELSE <<>>)
            /\ anki_models' = IF ok THEN anki_models \cup {MODEL_NAME} ELSE anki_models
            /\ IF ~ok
               THEN /\ sync_pc' = "raised"
                    /\ UNCHANGED <<sync_queue, sync_i>>
               ELSE IF sync_mode = "all"
               THEN /\ sync_pc' = "notes"
                    /\ sync_queue' = RecordsOfDataDir(data_files)
                    /\ sync_i' = 1
               ELSE IF level_file \notin DOMAIN combined_files
               THEN /\ sync_pc' = "no_level_file"
                    /\ UNCHANGED <<sync_queue, sync_i>>
               ELSE /\ sync_pc' = "notes"
                    /\ sync_queue' = combined_files[level_file]
                    /\ sync_i' = 1
    /\ UNCHANGED <<title_vars, text_vars, page_vars, scrape_vars, sync_mode, sync_runs, synced,
                   added, updated, anki_decks, anki_notes, anki_media>>

\* One iteration of the loop over the records (anki_sync.py:402-410,
\* 439-444): add_or_update_note, whose exception nothing catches.
SyncNote ==
    /\ sync_pc = "notes"
    /\ sync_i <= Len(sync_queue)
    /\ \E reach \in [1..3 -> BOOLEAN], outcome \in StoreOutcomes :
        LET verb_data == sync_queue[sync_i]
            r == AddOrUpdateNote(anki_notes, anki_media, image_files, verb_data, reach,
                                 outcome)
        IN  /\ anki_notes' = r.notes
            /\ anki_media' = r.media
            /\ sync_ops' = sync_ops \o r.ops
            /\ IF r.result = "raised"
               THEN /\ sync_pc' = "raised"
                    /\ UNCHANGED <<sync_i, synced, added, updated>>
               ELSE /\ sync_pc' = "notes"
                    /\ sync_i' = sync_i + 1
                    /\ synced' = Append(synced, verb_data.id)
                    /\ added' = IF r.result = "added" THEN added + 1 ELSE added
                    /\ updated' = IF r.result = "updated" THEN updated + 1 ELSE updated
    /\ UNCHANGED <<title_vars, text_vars, page_vars, scrape_vars, sync_mode, sync_runs, sync_queue,
                   anki_decks, anki_models>>

\* The end of the loop and the summary (anki_sync.py:412-415, 446-448).
FinishSync ==
    /\ sync_pc = "notes"
    /\ sync_i > Len(sync_queue)
    /\ sync_pc' = "done"
    /\ UNCHANGED <<title_vars, text_vars, page_vars, scrape_vars, sync_mode, sync_runs, sync_queue,
                   sync_i, synced, added, updated, sync_ops, anki_decks, anki_models,
                   anki_notes, anki_media>>

----------------------------------------------------------------------------
(* SpecSync: sync runs over the directories a scrape has left *)

\* Three records as scrape_level writes them: "a・b" with an image and "a・"
\* from the beginner level, "b／a" from the intermediate level.
RecordAB ==
    Record([id |-> <<"a", "_", "b">>, title |-> <<"a", "DOT", "b">>,
            pair |-> << <<"a">>, <<"b">> >>, url |-> ArticleUrl1,
            images |-> <<[filename |-> ImageFilename(IMG1, <<"a", "_", "b">>),
                          original_url |-> IMG1]>>], "beginner")
RecordA ==
    Record([id |-> <<"a", "_">>, title |-> <<"a", "DOT">>,
            pair |-> << <<"a">>, EmptyStr >>, url |-> ArticleUrl2,
            images |-> <<>>], "beginner")
RecordBA ==
    Record([id |-> <<"b", "_", "a">>, title |-> <<"b", "FSL", "a">>,
            pair |-> << <<"b">>, <<"a">> >>, url |-> ArticleUrl3,
            images |-> <<>>], "intermediate")

\* The records in the order a scrape of ScrapeCategories appends them to
\* results (scraper.py:305-309): article 1, then article 2, then article 3.
SampleRecords == <<RecordAB, RecordA, RecordBA>>

\* The data directory holding the records `chosen`.
DataDir(chosen) ==
    [id \in {r.id : r \in chosen} |-> CHOOSE r \in chosen : r.id = id]

\* The records of `chosen` of one level as its combined document lists
\* them (scraper.py:330-332, 346-348): in the order they were scraped.
LevelRecords(chosen, level) ==
    SelectSeq(SampleRecords, LAMBDA r : r \in chosen /\ r.level = level)

InitSync ==
    /\ TitleIdle
    /\ TextIdle
    /\ cat_site = NoFiles /\ current_url = "" /\ urls = <<>> /\ net_log = <<>>
    /\ pc = "idle"
    /\ art_site = NoFiles /\ mode = "" /\ runs = 0 /\ level_idx = 0
    /\ article_urls = <<>> /\ idx = 0 /\ results = <<>> /\ all_data = NoFiles
    /\ cur = <<>> /\ downloads = NoFiles
    /\ \E chosen \in SUBSET {RecordA, RecordAB, RecordBA} :
        /\ data_files = DataDir(chosen)
        /\ \E with_image \in BOOLEAN :
             image_files =
               IF with_image /\ RecordAB \in chosen
               THEN (RecordAB.images[1].filename :> [url |-> IMG1, run |-> 1])
               ELSE NoFiles
        /\ \E last_run \in {"all", "beginner"} :
             combined_files =
               IF last_run = "beginner"
               THEN (LevelFileName("beginner") :> LevelRecords(chosen, "beginner"))
               ELSE (AllFileName :> [l \in {"beginner", "intermediate", "advanced"} |->
                                        LevelRecords(chosen, l)])
    /\ sync_pc = "idle"
    /\ sync_mode = ""
    /\ sync_runs = 0
    /\ sync_queue = <<>>
    /\ sync_i = 0
    /\ synced = <<>>
    /\ added = 0
    /\ updated = 0
    /\ sync_ops = <<>>
    /\ anki_decks = {"Default"}
    /\ anki_models = {"Basic"}
    /\ anki_notes = <<>>
    /\ anki_media = <<>>

NextSync ==
    \/ StartSync
    \/ EnsureDeck
    \/ EnsureModel
    \/ SyncNote
    \/ FinishSync

SpecSync == InitSync /\ [][NextSync]_vars

\* The notes of the collection whose VerbPairID is verb_id.
NotesWithId(notes, verb_id) ==
    {i \in 1..Len(notes) : notes[i].fields.VerbPairID = verb_id}

\* C6, the state part: the collection never holds two notes with one
\* VerbPairID, nor two media files with one name or with the bytes of one
\* image file.
C6_NoDuplicates ==
    /\ \A i, j \in 1..Len(anki_notes) :
          anki_notes[i].fields.VerbPairID = anki_notes[j].fields.VerbPairID => i = j
    /\ \A i, j \in 1..Len(anki_media) :
          (\/ anki_media[i].filename = anki_media[j].filename
           \/ anki_media[i].data = anki_media[j].data) => i = j

\* The next record of the loop is synced and AnkiConnect answers every
\* request of the call.
SyncStepAnswered ==
    /\ sync_pc = "notes"
    /\ sync_i <= Len(sync_queue)
    /\ \A k \in (Len(sync_ops) + 1)..Len(sync_ops') : sync_ops'[k].outcome # "unreachable"

\* C6, the step part: the sync of a record that has no note yet adds one
\* note and counts as added (True); the sync of a record that has its note
\* changes no other note, keeps the note's id, and counts as updated (False).
C6_SyncStep ==
    SyncStepAnswered =>
        LET verb_id == sync_queue[sync_i].id
            before == NotesWithId(anki_notes, verb_id)
            after == NotesWithId(anki_notes', verb_id)
        IN  /\ Cardinality(after) = 1
            /\ sync_pc' = "notes"
            /\ IF before = {}
               THEN /\ added' = added + 1 /\ updated' = updated
                    /\ Len(anki_notes') = Len(anki_notes) + 1
               ELSE /\ added' = added /\ updated' = updated + 1
                    /\ after = before
                    /\ Len(anki_notes') = Len(anki_notes)
                    /\ \A i \in 1..Len(anki_notes) :
                          /\ anki_notes'[i].note_id = anki_notes[i].note_id
                          /\ i \notin before => anki_notes'[i] = anki_notes[i]

\* C6: successive syncs of a record leave exactly one note with its id: the
\* first adds it, every later one updates that note, and neither notes nor
\* media files are doubled.
C6_RepeatedSyncIsUpsert ==
    /\ []C6_NoDuplicates
    /\ [][C6_SyncStep]_vars

\* C7: a run whose startup check finds AnkiConnect unreachable issues no
\* other request; a run that got to its records ends with no record left
\* behind the one it synced last, whatever request failed on the way.
C7_OnlyStartupFailureStopsBatch ==
    /\ sync_pc = "unreachable" => sync_ops = <<Op("version", "unreachable")>>
    /\ (sync_pc \in {"done", "raised"} /\ sync_i >= 1) => sync_i >= Len(sync_queue)

----------------------------------------------------------------------------
(* SpecTitle: parse_article's title handling applied to every heading text *)

Headings == SeqsUpTo(Chars, MaxTitleLen)

InitTitle ==
    /\ heading \in Headings
    /\ tp_state = "input"
    /\ tp_pair = None
    /\ tp_id = EmptyStr
    /\ TextIdle
    /\ PageIdle
    /\ ScrapeIdle
    /\ SyncIdle

\* scraper.py:187-197
ParseTitle ==
    /\ tp_state = "input"
    /\ LET title == GetTextStrip(heading)
           verb_pair == parse_verb_pair_title(title)
       IN  /\ tp_pair' = verb_pair
           /\ IF ~Truthy(verb_pair)
              THEN /\ tp_state' = "none"
                   /\ tp_id' = EmptyStr
              ELSE /\ tp_state' = "record"
                   /\ tp_id' = MakeVerbId(verb_pair[1], verb_pair[2])
    /\ UNCHANGED <<heading, text_vars, page_vars, scrape_vars, sync_vars>>

NextTitle == ParseTitle

SpecTitle == InitTitle /\ [][NextTitle]_vars

\* C1 as stated: the record id is the plain concatenation A + B of the two
\* kanji forms, with nothing between them.
C1_IdIsPlainConcatenation ==
    tp_state = "record" => tp_id = tp_pair[1] \o tp_pair[2]

\* C1 amended: the record id is A, a single "_", then B, with every ASCII
\* space removed from the whole; an article yields an id exactly when its
\* title parses to a pair.
C1_IdIsUnderscoreJoined ==
    /\ tp_state = "record" =>
          /\ Truthy(tp_pair)
          /\ tp_id = PyRemove(tp_pair[1], " ") \o <<"_">> \o PyRemove(tp_pair[2], " ")
          /\ ~Contains(tp_id, " ")
    /\ tp_state = "none" => tp_pair = None /\ tp_id = EmptyStr

\* A title "a b・b" style pair with an inner space has been given its id.
C1_Witness ==
    /\ tp_state = "record"
    /\ tp_pair = << <<"a", " ", "b">>, <<"b">> >>
    /\ tp_id = <<"a", "b", "_", "b">>

\* The recognized separators in text t, counted over all three kinds.
SeparatorCount(t) ==
    Cardinality({i \in 1..Len(t) : t[i] \in {"DOT", "FSL", "/"}})

\* C3: a title whose text before the vertical bar holds no recognized
\* separator, or more than one in total, yields no pair and no record.
C3_NotOneSeparatorIsNotExtractable ==
    (tp_state # "input" /\ SeparatorCount(BeforeBar(heading)) # 1)
        => (tp_state = "none" /\ tp_pair = None)

----------------------------------------------------------------------------
(* parse_article: practice questions and answers mined from the text *)

\* The characters of a body text are named as those of a title are:
\*   "LB" "RB"          the brackets of a marker (U+3010, U+3011)
\*   "KO" "E"           the two characters between the brackets of the
\*                      answer marker
\*   "c1" ... "c15"     the circled ordinal glyphs (U+2460 ... U+246E)
\*   "NL"               the newline
\*   any other name     one ordinary character

\* scraper.py:237
circled_numbers ==
    <<"c1", "c2", "c3", "c4", "c5", "c6", "c7", "c8", "c9", "c10",
      "c11", "c12", "c13", "c14", "c15">>

\* The characters the class [^...] of scraper.py:239 and scraper.py:253
\* leaves out: the newline and the first ten circled glyphs.
ClassExcluded ==
    {"NL", "c1", "c2", "c3", "c4", "c5", "c6", "c7", "c8", "c9", "c10"}

\* The literal that opens the pattern of scraper.py:249.
AnswerMarker == <<"LB", "KO", "E", "RB">>

\* The least member of a non-empty set of integers.
SetMin(S) == CHOOSE x \in S : \A y \in S : x <= y

\* text[i:].startswith(pat)
StartsWithAt(text, i, pat) ==
    /\ i + Len(pat) - 1 <= Len(text)
    /\ SubSeq(text, i, i + Len(pat) - 1) = pat

\* The end of the longest run of characters outside ClassExcluded that
\* starts at p (p - 1 when text[p] is no such character): what the greedy
\* [^...]+ takes from p.
RunEnd(text, p) ==
    LET stops == {j \in p..Len(text) : text[j] \in ClassExcluded}
    IN  IF stops = {} THEN Len(text) ELSE SetMin(stops) - 1

\* re.findall(rf"{char}[^\n...]+", text) from position p on (scraper.py:
\* 239-240): the matches, left to right, none overlapping another.
RECURSIVE FindQuestions(_, _, _)
FindQuestions(char, text, p) ==
    IF p >= Len(text) THEN <<>>
    ELSE IF text[p] = char /\ text[p + 1] \notin ClassExcluded
         THEN LET e == RunEnd(text, p + 1)
              IN  <<SubSeq(text, p, e)>> \o FindQuestions(char, text, e + 1)
         ELSE FindQuestions(char, text, p + 1)

\* scraper.py:242-243: a match with an opening bracket and no closing
\* bracket gets one appended.
RepairBracket(m) ==
    IF Contains(m, "LB") /\ ~Contains(m, "RB") THEN Append(m, "RB") ELSE m

\* scraper.py:241-245: the matches of one glyph that are kept, stripped.
RECURSIVE KeepQuestions(_)
KeepQuestions(matches) ==
    IF matches = <<>> THEN <<>>
    ELSE LET m == RepairBracket(Head(matches))
         IN  (IF Len(m) > 5 THEN <<PyStrip(m)>> ELSE <<>>)
             \o KeepQuestions(Tail(matches))

\* scraper.py:236-245: practice_questions after the glyphs k.. of
\* circled_numbers were gone through.
RECURSIVE PracticeQuestionsFrom(_, _)
PracticeQuestionsFrom(text, k) ==
    IF k > Len(circled_numbers) THEN <<>>
    ELSE KeepQuestions(FindQuestions(circled_numbers[k], text, 1))
         \o PracticeQuestionsFrom(text, k + 1)

\* seq[:n]
Take(seq, n) == SubSeq(seq, 1, Min(n, Len(seq)))

\* scraper.py:249-251: group 1 of the first match of the answer marker
\* followed by (.+?)(?=LB|$) under re.DOTALL, None when nothing matches.
\* The marker matches where a character follows it; the lazy group takes
\* that character whatever it is, then as few more as bring it before a
\* "LB", to the end of the text, or before a newline that ends the text.
AnswerSection(text) ==
    LET starts == {i \in 1..Len(text) :
                      /\ StartsWithAt(text, i, AnswerMarker)
                      /\ i + Len(AnswerMarker) <= Len(text)}
    IN  IF starts = {} THEN None
        ELSE LET s == SetMin(starts) + Len(AnswerMarker)
                 ends == {e \in s..Len(text) :
                             \/ e = Len(text)
                             \/ text[e + 1] = "LB"
                             \/ (e + 1 = Len(text) /\ text[e + 1] = "NL")}
             IN  Some(SubSeq(text, s, SetMin(ends)))

\* scraper.py:253-256: re.search(rf"{char}([^...\n]+)", answer_text), its
\* group 1 stripped; None when nothing matches.
AnswerOf(char, answer_text) ==
    LET at == {i \in 1..(Len(answer_text) - 1) :
                  /\ answer_text[i] = char
                  /\ answer_text[i + 1] \notin ClassExcluded}
    IN  IF at = {} THEN None
        ELSE LET i == SetMin(at)
             IN  Some(PyStrip(SubSeq(answer_text, i + 1, RunEnd(answer_text, i + 1))))

\* scraper.py:252-256: answers after the glyphs k.. of circled_numbers were
\* gone through.
RECURSIVE AnswersFrom(_, _)
AnswersFrom(answer_text, k) ==
    IF k > Len(circled_numbers) THEN <<>>
    ELSE AnswerOf(circled_numbers[k], answer_text)
         \o AnswersFrom(answer_text, k + 1)

\* scraper.py:248-256
MineAnswers(text) ==
    LET answer_section == AnswerSection(text)
    IN  IF answer_section = None THEN <<>>
        ELSE AnswersFrom(answer_section[1], 1)

----------------------------------------------------------------------------
(* SpecExtract: parse_article's text mining applied to body texts *)

\* Two words of two ordinary characters each.
Maru == <<"ma", "ru">>
Batsu == <<"ba", "tsu">>

\* What a body text is put together from: the answer marker, a bracket, a
\* circled glyph inside the class of the patterns ("c1", "c2") or outside
\* it ("c11"), a newline, a space, a word.
BodyPieces ==
    {AnswerMarker, <<"LB">>, <<"RB">>, <<"c1">>, <<"c2">>, <<"c11">>,
     <<"NL">>, <<" ">>, Maru, Batsu}

\* The concatenation of a sequence of pieces.
RECURSIVE Flatten(_)
Flatten(pieces) ==
    IF pieces = <<>> THEN <<>> ELSE Head(pieces) \o Flatten(Tail(pieces))

\* An answer block of two answers closed by another marker, and a list of
\* two questions, the first with a bracket the second glyph cuts open.
AnswerExample ==
    AnswerMarker \o <<"c1">> \o Maru \o <<"c2">> \o Batsu \o <<"LB", "tsugi", "RB">>
QuestionExample ==
    <<"c1", "LB", "a", ",", "i">> \o <<"c2">> \o Maru \o Batsu \o Maru

BodyTexts ==
    {Flatten(ps) : ps \in SeqsUpTo(BodyPieces, MaxBodyPieces)}
        \cup {AnswerExample, QuestionExample}

InitExtract ==
    /\ body \in BodyTexts
    /\ ex_state = "input"
    /\ practice_questions = <<>>
    /\ answers = <<>>
    /\ TitleIdle
    /\ PageIdle
    /\ ScrapeIdle
    /\ SyncIdle

\* scraper.py:235-256, and the two fields of the record (scraper.py:291-292)
MineText ==
    /\ ex_state = "input"
    /\ practice_questions' = Take(PracticeQuestionsFrom(body, 1), 10)
    /\ answers' = MineAnswers(body)
    /\ ex_state' = "done"
    /\ UNCHANGED <<body, title_vars, page_vars, scrape_vars, sync_vars>>

NextExtract == MineText

SpecExtract == InitExtract /\ [][NextExtract]_vars

\* The text from the end of the first answer marker up to the next "LB",
\* or to the end of the text; None when the text has no answer marker.
BlockAfterMarker(text) ==
    LET starts == {i \in 1..Len(text) : StartsWithAt(text, i, AnswerMarker)}
    IN  IF starts = {} THEN None
        ELSE LET s == SetMin(starts) + Len(AnswerMarker)
                 opens == {j \in s..Len(text) : text[j] = "LB"}
             IN  Some(SubSeq(text, s, IF opens = {} THEN Len(text)
                                       ELSE SetMin(opens) - 1))

\* C11: the answers are those found in the text between the answer marker
\* and the next opening bracket (the end of the text when there is none),
\* so none comes from the text at or after that bracket; the answer block
\* "c1 ma ru c2 ba tsu" closed by another marker gives the two answers
\* "ma ru" and "ba tsu".
C11_AnswersComeFromMarkedBlockOnly ==
    ex_state = "done" =>
        /\ answers = (IF BlockAfterMarker(body) = None THEN <<>>
                      ELSE AnswersFrom(BlockAfterMarker(body)[1], 1))
        /\ body = AnswerExample => answers = <<Maru, Batsu>>

\* The circled glyphs in an item.
GlyphCount(m) ==
    Cardinality({i \in 1..Len(m) :
                    \E k \in 1..Len(circled_numbers) : m[i] = circled_numbers[k]})

\* C12: every practice question starts with its circled glyph and ends
\* before the next circled glyph, whichever of the fifteen that is: it
\* holds one circled glyph, its first character.
C12_QuestionEndsBeforeNextGlyph ==
    ex_state = "done" =>
        \A i \in 1..Len(practice_questions) :
            /\ GlyphCount(practice_questions[i]) = 1
            /\ GlyphCount(<<practice_questions[i][1]>>) = 1

====
